---- MODULE Spec2Model ----
(***************************************************************************)
(* Model of Pathways/W14D3/Advanced/production_ml_system.py: the model     *)
(* version registry (ModelManager), the background health monitor          *)
(* (MLMonitor) and the orchestrator (ProductionMLSystem).                  *)
(*                                                                         *)
(* Units.  The clock counts seconds: a version identifier is the clock     *)
(* value at the start of train_new_model (strftime("%Y%m%d_%H%M%S")).      *)
(* R2 scores are in hundredths.  Confidences are in sixtieths, so that     *)
(* 1/3 (mean of three normalised feature importances), 0.8, 0.7 and their  *)
(* halves are all integers.  Prices are in currency units.                 *)
(***************************************************************************)
EXTENDS Integers, Sequences, FiniteSets, TLC

\* ---------------------------------------------------------------- bounds
MaxTime == 1
MaxLog == 1
MaxThreads == 2
MaxAlerts == 1
MaxRecords == 3

\* ------------------------------------------------------ program constants
PriceFloor == 50000
ImprovementThreshold == 2
MinSamples == 50
PerformanceThreshold == 42
DefaultConfidence == 48
MeanImportance == 20
ConfidenceOne == 60
SecondsPerDay == 86400
StatusDays == 7
HealthDays == 1

\* ------------------------------------------------------------ input sets
Versions == 0..MaxTime
NoVersion == -1
Features == {0, 1}
\* the same inputs as the fitted scaler hands them to ModelManager.predict
ScaledFeatures == {-1, 0}

None == <<>>
Some(x) == <<x>>

\* What _get_training_data can hand back: well-formed data (its centre, the
\* level the fitted forest predicts around, the R2 the test split gives), or
\* arrays that are empty or not row-aligned.
DataSets ==
    { [kind |-> "ok", center |-> 1, level |-> -1, r2 |-> 80],
      [kind |-> "ok", center |-> 1, level |-> 1, r2 |-> 83],
      [kind |-> "empty", center |-> 0, level |-> 0, r2 |-> 0],
      [kind |-> "misaligned", center |-> 0, level |-> 0, r2 |-> 0] }

\* the same, and data whose R2 is above the first's by the margin exactly
MarginData ==
    DataSets \cup { [kind |-> "ok", center |-> 1, level |-> 2, r2 |-> 82] }

VARIABLES
    now,             \* wall clock, in seconds
    modelFiles,      \* models_dir: version -> model_<version>.pkl
    metaFiles,       \* models_dir: version -> metadata_<version>.json
    open,            \* the sqlite connection is open
    db,              \* the tables as the connection sees them
    committed,       \* the tables as committed to ml_system.db
    current_model,   \* ModelManager.current_model
    current_version, \* ModelManager.current_version
    model_metadata,  \* ModelManager.model_metadata
    scaler,          \* ProductionMLSystem.scaler
    is_initialized,  \* ProductionMLSystem.is_initialized
    monitoring,      \* MLMonitor.monitoring
    thread,          \* the monitor threads: where each is in _monitor_loop
    fg,              \* the caller's thread: where it is inside a call
    lastDeployed     \* the version of the last deploy_model that returned True

vars == <<now, modelFiles, metaFiles, open, db, committed, current_model,
          current_version, model_metadata, scaler, is_initialized,
          monitoring, thread, fg, lastDeployed>>

\* ------------------------------------------------------------- the store
EmptyTables ==
    [ model_versions |-> [v \in Versions |-> None],
      predictions |-> <<>>,
      model_performance |-> <<>> ]

\* variant: the record is inserted without the 'trained' status
InsertVersionInactive(t, v, r2) ==
    [t EXCEPT !.model_versions[v] = Some([r2_score |-> r2, status |-> "inactive"])]

\* INSERT INTO model_versions ... status 'trained'
InsertVersion(t, v, r2) ==
    [t EXCEPT !.model_versions[v] = Some([r2_score |-> r2, status |-> "trained"])]

\* variant: the first UPDATE matches no row
UpdateActiveNoRow(t, v) == t

\* UPDATE model_versions SET status = 'active' WHERE version = ?
UpdateActive(t, v) ==
    [t EXCEPT !.model_versions =
        [u \in Versions |->
            IF u = v /\ t.model_versions[u] # None
            THEN Some([t.model_versions[u][1] EXCEPT !.status = "active"])
            ELSE t.model_versions[u]]]

\* UPDATE model_versions SET status = 'inactive' WHERE version != ?
UpdateInactive(t, v) ==
    [t EXCEPT !.model_versions =
        [u \in Versions |->
            IF u # v /\ t.model_versions[u] # None
            THEN Some([t.model_versions[u][1] EXCEPT !.status = "inactive"])
            ELSE t.model_versions[u]]]

\* INSERT INTO predictions: the raw prediction and confidence are logged
InsertPrediction(t, ts, v, x, p, c) ==
    [t EXCEPT !.predictions = Append(@,
        [timestamp |-> ts, model_version |-> v, input_features |-> x,
         prediction |-> p, confidence |-> c])]

\* INSERT INTO model_performance
InsertAlert(t, ts, v, c) ==
    [t EXCEPT !.model_performance = Append(@,
        [timestamp |-> ts, model_version |-> v,
         metric_name |-> "confidence_alert", metric_value |-> c])]

\* ------------------------------------------------- the model and scaler
\* RandomForestRegressor.fit on the scaled data
FitModel(d) == [level |-> d.level, has_importances |-> TRUE]

\* current_model.predict(features)[0]
ModelPredict(m, x) == m.level + x

\* lines 175-178: mean of feature_importances_, or the default
Confidence(m) ==
    IF m.has_importances THEN MeanImportance ELSE DefaultConfidence

\* StandardScaler.transform with the fitted centre
Transform(sc, x) == x - sc[1].center

\* ------------------------------------------- the world, passed by value
World ==
    [ modelFiles |-> modelFiles, metaFiles |-> metaFiles, open |-> open,
      db |-> db, committed |-> committed, current_model |-> current_model,
      current_version |-> current_version, model_metadata |-> model_metadata ]

SetWorld(w) ==
    /\ modelFiles' = w.modelFiles
    /\ metaFiles' = w.metaFiles
    /\ open' = w.open
    /\ db' = w.db
    /\ committed' = w.committed
    /\ current_model' = w.current_model
    /\ current_version' = w.current_version
    /\ model_metadata' = w.model_metadata

\* conn.commit()
Commit(w) == [w EXCEPT !.committed = w.db]

\* variant: close() rolls back and leaves the connection usable
CloseLeavesOpen(w) == [w EXCEPT !.db = w.committed]

\* conn.close(): what was not committed is rolled back
Close(w) == [w EXCEPT !.open = FALSE, !.db = w.committed]

\* ------------------------------------------------------- ModelManager
NoResult ==
    [prediction |-> 0, confidence |-> 0, model_version |-> NoVersion, timestamp |-> 0]

\* json.dump(metadata): what train_new_model writes to metadata_<version>.json
Metadata(version, d) ==
    [version |-> version, r2_score |-> d.r2, status |-> "trained"]

\* variant: the two files are written before the fit
train_new_model_files_first(w, t, d) ==
    LET version == t
        written == [w EXCEPT !.modelFiles[version] = Some(FitModel(d)),
                             !.metaFiles[version] = Some(Metadata(version, d))]
    IN  IF d.kind # "ok"
        THEN [w |-> written, err |-> "ValueError", version |-> NoVersion]
        ELSE IF ~w.open
        THEN [w |-> written, err |-> "ProgrammingError", version |-> NoVersion]
        ELSE IF w.db.model_versions[version] # None
        THEN [w |-> written, err |-> "IntegrityError", version |-> NoVersion]
        ELSE [w |-> Commit([written EXCEPT
                        !.db = InsertVersion(w.db, version, d.r2)]),
              err |-> "none", version |-> version]

\* train_new_model at clock t: fit (raises on empty or misaligned arrays),
\* write both files, INSERT the record (raises on a closed connection or on
\* an identifier that is already a primary key), commit.
train_new_model(w, t, d) ==
    LET version == t
        written == [w EXCEPT !.modelFiles[version] = Some(FitModel(d)),
                             !.metaFiles[version] = Some(Metadata(version, d))]
    IN  IF d.kind # "ok"
        THEN [w |-> w, err |-> "ValueError", version |-> NoVersion]
        ELSE IF ~w.open
        THEN [w |-> written, err |-> "ProgrammingError", version |-> NoVersion]
        ELSE IF w.db.model_versions[version] # None
        THEN [w |-> written, err |-> "IntegrityError", version |-> NoVersion]
        ELSE [w |-> Commit([written EXCEPT
                        !.db = InsertVersion(w.db, version, d.r2)]),
              err |-> "none", version |-> version]

\* lines 140-142: both files must exist
FilesExist(w, v) == w.modelFiles[v] # None /\ w.metaFiles[v] # None

\* variant: the version is noted but the model is not loaded
LoadVersionOnly(w, v) == [w EXCEPT !.current_version = v]

\* lines 145-149: joblib.load, json.load, current_version = version
LoadModel(w, v) ==
    [w EXCEPT !.current_model = w.modelFiles[v],
              !.model_metadata = w.metaFiles[v],
              !.current_version = v]

\* variant: the second UPDATE is left out
SetActiveNoDemote(t, v) == UpdateActive(t, v)

\* lines 152-157: the two UPDATE statements, in the code's order
SetActive(t, v) == UpdateInactive(UpdateActive(t, v), v)

\* deploy_model: every exception is caught and turned into False
deploy_model(w, v) ==
    IF ~FilesExist(w, v)
    THEN [w |-> w, ret |-> FALSE]
    ELSE LET loaded == LoadModel(w, v)
         IN  IF ~loaded.open
             THEN [w |-> loaded, ret |-> FALSE]
             ELSE [w |-> Commit([loaded EXCEPT !.db = SetActive(loaded.db, v)]),
                   ret |-> TRUE]

\* variant: the INSERT is not committed
predict_uncommitted(w, t, x, log_prediction) ==
    IF w.current_model = None
    THEN [w |-> w, err |-> "ValueError", result |-> NoResult]
    ELSE LET prediction == ModelPredict(w.current_model[1], x)
             confidence == Confidence(w.current_model[1])
             result == [prediction |-> prediction, confidence |-> confidence,
                        model_version |-> w.current_version, timestamp |-> t]
         IN  IF ~log_prediction
             THEN [w |-> w, err |-> "none", result |-> result]
             ELSE IF ~w.open
             THEN [w |-> w, err |-> "ProgrammingError", result |-> NoResult]
             ELSE [w |-> [w EXCEPT !.db = InsertPrediction(w.db, t,
                             w.current_version, x, prediction, confidence)],
                   err |-> "none", result |-> result]

\* predict at clock t on scaled features x
predict(w, t, x, log_prediction) ==
    IF w.current_model = None
    THEN [w |-> w, err |-> "ValueError", result |-> NoResult]
    ELSE LET prediction == ModelPredict(w.current_model[1], x)
             confidence == Confidence(w.current_model[1])
             result == [prediction |-> prediction, confidence |-> confidence,
                        model_version |-> w.current_version, timestamp |-> t]
         IN  IF ~log_prediction
             THEN [w |-> w, err |-> "none", result |-> result]
             ELSE IF ~w.open
             THEN [w |-> w, err |-> "ProgrammingError", result |-> NoResult]
             ELSE [w |-> Commit([w EXCEPT !.db = InsertPrediction(w.db, t,
                                    w.current_version, x, prediction, confidence)]),
                   err |-> "none", result |-> result]

\* variant: the cutoff itself is inside the window
RecentOrAt(preds, cutoff) == SelectSeq(preds, LAMBDA p : p.timestamp >= cutoff)

\* WHERE timestamp > cutoff
Recent(preds, cutoff) == SelectSeq(preds, LAMBDA p : p.timestamp > cutoff)

RECURSIVE ConfidenceSum(_, _)
ConfidenceSum(s, v) ==
    IF s = <<>> THEN 0
    ELSE (IF Head(s).model_version = v THEN Head(s).confidence ELSE 0)
         + ConfidenceSum(Tail(s), v)

PredictionCount(s, v) ==
    Cardinality({i \in 1..Len(s) : s[i].model_version = v})

\* get_model_performance: one row per model_version in the window, with its
\* COUNT(*) and the sum its AVG(confidence) divides; total_predictions
get_model_performance(t, clock, days) ==
    LET rows == Recent(t.predictions, clock - days * SecondsPerDay)
        groups == {rows[i].model_version : i \in 1..Len(rows)}
    IN  [ period_days |-> days,
          models |-> [v \in groups |->
                        [prediction_count |-> PredictionCount(rows, v),
                         confidence_sum |-> ConfidenceSum(rows, v)]],
          total_predictions |-> Len(rows) ]

RECURSIVE CountProduct(_, _)
CountProduct(models, S) ==
    IF S = {} THEN 1
    ELSE LET v == CHOOSE u \in S : TRUE
         IN  models[v].prediction_count * CountProduct(models, S \ {v})

RECURSIVE ScaledAverages(_, _, _)
ScaledAverages(models, S, all) ==
    IF S = {} THEN 0
    ELSE LET v == CHOOSE u \in S : TRUE
         IN  models[v].confidence_sum * CountProduct(models, all \ {v})
             + ScaledAverages(models, S \ {v}, all)

\* variant: a mean that equals the threshold counts as low
MeanConfidenceAtOrBelow(models, threshold) ==
    LET S == DOMAIN models
    IN  ScaledAverages(models, S, S)
            <= threshold * Cardinality(S) * CountProduct(models, S)

\* np.mean([m['avg_confidence'] ...]) < threshold, in exact arithmetic: both
\* sides multiplied by the number of rows and by the product of the counts
MeanConfidenceBelow(models, threshold) ==
    LET S == DOMAIN models
    IN  ScaledAverages(models, S, S)
            < threshold * Cardinality(S) * CountProduct(models, S)

\* the mean itself, as a fraction
MeanConfidence(models) ==
    LET S == DOMAIN models
    IN  [num |-> ScaledAverages(models, S, S),
         den |-> Cardinality(S) * CountProduct(models, S)]

\* _check_model_health followed by _log_performance_alert, at clock t
check_model_health(w, t) ==
    IF ~w.open
    THEN [w |-> w, err |-> "ProgrammingError"]
    ELSE LET performance == get_model_performance(w.db, t, HealthDays)
         IN  IF /\ performance.total_predictions > MinSamples
                /\ MeanConfidenceBelow(performance.models, PerformanceThreshold)
             THEN [w |-> Commit([w EXCEPT !.db = InsertAlert(w.db, t,
                                    w.current_version,
                                    MeanConfidence(performance.models))]),
                   err |-> "none"]
             ELSE [w |-> w, err |-> "none"]

\* ------------------------------------------------------------ MLMonitor
\* variant: the thread is created and never started
SpawnNothing(th) == th

\* threading.Thread(target=self._monitor_loop).start(): a new loop begins
\* at the top of its while
SpawnThread(th) ==
    Append(th, [pc |-> "top", avg_confidence |-> None, lastrowid |-> 0])

CanSpawn == Len(thread) < MaxThreads

\* a loop that leaves its while is gone
RemoveAt(th, i) == SubSeq(th, 1, i - 1) \o SubSeq(th, i + 1, Len(th))

\* --------------------------------------------------- ProductionMLSystem
\* variant: the comparison admits equality
should_deploy_on_equal(w, new_version) ==
    IF w.current_version = NoVersion
    THEN TRUE
    ELSE w.metaFiles[new_version][1].r2_score
             >= w.model_metadata[1].r2_score + ImprovementThreshold

\* _should_deploy_new_model: a missing 'r2_score' reads as 0
should_deploy_new_model(w, new_version) ==
    IF w.current_version = NoVersion
    THEN TRUE
    ELSE LET current_r2 == IF w.model_metadata = None THEN 0
                           ELSE w.model_metadata[1].r2_score
             new_r2 == w.metaFiles[new_version][1].r2_score
         IN  new_r2 > current_r2 + ImprovementThreshold

\* variant: the floor is applied and the confidence is kept
ClampKeepConfidence(result) ==
    IF result.prediction < 0
    THEN [result EXCEPT !.prediction = PriceFloor]
    ELSE result

\* lines 382-384: the floor and the halved confidence
Clamp(result) ==
    IF result.prediction < 0
    THEN [result EXCEPT !.prediction = PriceFloor,
                        !.confidence = result.confidence \div 2]
    ELSE result

Idle == [pc |-> "idle", arg |-> NoVersion]

Init ==
    /\ now = 0
    /\ modelFiles = [v \in Versions |-> None]
    /\ metaFiles = [v \in Versions |-> None]
    /\ open = TRUE
    /\ db = EmptyTables
    /\ committed = EmptyTables
    /\ current_model = None
    /\ current_version = NoVersion
    /\ model_metadata = None
    /\ scaler = None
    /\ is_initialized = FALSE
    /\ monitoring = FALSE
    /\ thread = <<>>
    /\ fg = Idle
    /\ lastDeployed = NoVersion

\* ------------------------------------------------------ the environment
\* a second passes
Tick ==
    /\ now < MaxTime
    /\ now' = now + 1
    /\ UNCHANGED <<modelFiles, metaFiles, open, db, committed, current_model,
                   current_version, model_metadata, scaler, is_initialized,
                   monitoring, thread, fg, lastDeployed>>

\* -------------------------------------------- calls on the ModelManager
TrainNewModel(d) ==
    /\ fg = Idle
    /\ SetWorld(train_new_model(World, now, d).w)
    /\ UNCHANGED <<now, scaler, is_initialized, monitoring, thread, fg,
                   lastDeployed>>

DeployModel(v) ==
    /\ fg = Idle
    /\ LET r == deploy_model(World, v)
       IN  /\ SetWorld(r.w)
           /\ lastDeployed' = IF r.ret THEN v ELSE lastDeployed
    /\ UNCHANGED <<now, scaler, is_initialized, monitoring, thread, fg>>

Predict(x, log_prediction) ==
    /\ fg = Idle
    /\ log_prediction => Len(db.predictions) < MaxLog
    /\ SetWorld(predict(World, now, x, log_prediction).w)
    /\ UNCHANGED <<now, scaler, is_initialized, monitoring, thread, fg,
                   lastDeployed>>

\* ------------------------------------------------ calls on the MLMonitor
StartMonitoring ==
    /\ fg = Idle
    /\ CanSpawn
    /\ monitoring' = TRUE
    /\ thread' = SpawnThread(thread)
    /\ UNCHANGED <<now, modelFiles, metaFiles, open, db, committed,
                   current_model, current_version, model_metadata, scaler,
                   is_initialized, fg, lastDeployed>>

StopMonitoring ==
    /\ fg = Idle
    /\ monitoring' = FALSE
    /\ UNCHANGED <<now, modelFiles, metaFiles, open, db, committed,
                   current_model, current_version, model_metadata, scaler,
                   is_initialized, thread, fg, lastDeployed>>

\* one turn of _monitor_loop: the flag is read at the top; the check runs,
\* an exception it raises is caught, and the loop sleeps (an hour, or a
\* minute after an exception) before it is back at the top
MonitorLoop(i) ==
    /\ thread[i].pc = "top"
    /\ fg = Idle
    /\ IF ~monitoring
       THEN /\ thread' = RemoveAt(thread, i)
            /\ UNCHANGED <<modelFiles, metaFiles, open, db, committed,
                           current_model, current_version, model_metadata>>
       ELSE /\ SetWorld(check_model_health(World, now).w)
            /\ UNCHANGED thread
    /\ UNCHANGED <<now, scaler, is_initialized, monitoring, fg, lastDeployed>>

\* ------------------------------------ calls on the ProductionMLSystem
\* initialize_system with the data _get_training_data hands back.  A fit
\* that raises has already reset the scaler or has not touched it yet.
InitializeSystem(d) ==
    /\ fg = Idle
    /\ IF d.kind = "empty"
       THEN /\ scaler' \in {scaler, None}
            /\ UNCHANGED <<modelFiles, metaFiles, open, db, committed,
                           current_model, current_version, model_metadata,
                           is_initialized, monitoring, thread, lastDeployed>>
       ELSE LET tr == train_new_model(World, now, d)
                dp == deploy_model(tr.w, tr.version)
            IN  /\ scaler' = Some([center |-> d.center])
                /\ IF tr.err # "none"
                   THEN /\ SetWorld(tr.w)
                        /\ UNCHANGED <<is_initialized, monitoring, thread,
                                       lastDeployed>>
                   ELSE /\ CanSpawn
                        /\ SetWorld(dp.w)
                        /\ lastDeployed' = IF dp.ret THEN tr.version
                                           ELSE lastDeployed
                        /\ monitoring' = TRUE
                        /\ thread' = SpawnThread(thread)
                        /\ is_initialized' = TRUE
    /\ UNCHANGED <<now, fg>>

\* variant: the is_initialized guard is missing
predict_house_price_unguarded(w, sc, initialized, t, x) ==
    IF sc = None
    THEN [w |-> w, err |-> "NotFittedError", result |-> NoResult]
    ELSE LET r == predict(w, t, Transform(sc, x), TRUE)
         IN  IF r.err # "none" THEN r
             ELSE [r EXCEPT !.result = Clamp(r.result)]

\* predict_house_price: the guard, the scaling, ModelManager.predict (which
\* logs), the floor
predict_house_price(w, sc, initialized, t, x) ==
    IF ~initialized
    THEN [w |-> w, err |-> "RuntimeError", result |-> NoResult]
    ELSE IF sc = None
    THEN [w |-> w, err |-> "NotFittedError", result |-> NoResult]
    ELSE LET r == predict(w, t, Transform(sc, x), TRUE)
         IN  IF r.err # "none" THEN r
             ELSE [r EXCEPT !.result = Clamp(r.result)]

PredictHousePrice(x) ==
    /\ fg = Idle
    /\ Len(db.predictions) < MaxLog
    /\ LET r == predict_house_price(World, scaler, is_initialized, now, x)
       IN  SetWorld(r.w)
    /\ UNCHANGED <<now, scaler, is_initialized, monitoring, thread, fg,
                   lastDeployed>>

\* get_system_status reads; its get_model_performance raises on a closed
\* connection
get_system_status(w, initialized, mon, t) ==
    IF ~w.open
    THEN [err |-> "ProgrammingError", initialized |-> FALSE,
          current_model_version |-> NoVersion, monitoring_active |-> FALSE,
          total_predictions |-> 0]
    ELSE [err |-> "none", initialized |-> initialized,
          current_model_version |-> w.current_version,
          monitoring_active |-> mon,
          total_predictions |->
              get_model_performance(w.db, t, StatusDays).total_predictions]

GetSystemStatus ==
    /\ fg = Idle
    /\ get_system_status(World, is_initialized, monitoring, now).err
           \in {"none", "ProgrammingError"}
    /\ UNCHANGED vars

\* retrain_model with the data _get_training_data hands back
retrain_model(w, sc, t, d) ==
    IF sc = None
    THEN [w |-> w, err |-> "NotFittedError", version |-> NoVersion,
          deployed |-> FALSE, ret |-> FALSE]
    ELSE IF d.kind = "empty"
    THEN [w |-> w, err |-> "ValueError", version |-> NoVersion,
          deployed |-> FALSE, ret |-> FALSE]
    ELSE LET tr == train_new_model(w, t, d)
             dp == deploy_model(tr.w, tr.version)
         IN  IF tr.err # "none"
             THEN [w |-> tr.w, err |-> tr.err, version |-> NoVersion,
                   deployed |-> FALSE, ret |-> FALSE]
             ELSE IF should_deploy_new_model(tr.w, tr.version)
             THEN [w |-> dp.w, err |-> "none", version |-> tr.version,
                   deployed |-> TRUE, ret |-> dp.ret]
             ELSE [w |-> tr.w, err |-> "none", version |-> tr.version,
                   deployed |-> FALSE, ret |-> FALSE]

RetrainModel(d) ==
    /\ fg = Idle
    /\ LET r == retrain_model(World, scaler, now, d)
       IN  /\ SetWorld(r.w)
           /\ lastDeployed' = IF r.ret THEN r.version ELSE lastDeployed
    /\ UNCHANGED <<now, scaler, is_initialized, monitoring, thread, fg>>

\* shutdown: stop_monitoring, then conn.close()
Shutdown ==
    /\ fg = Idle
    /\ monitoring' = FALSE
    /\ SetWorld(Close(World))
    /\ UNCHANGED <<now, scaler, is_initialized, thread, fg, lastDeployed>>

\* ------------------------------------------------------ specification
Next ==
    \/ Tick
    \/ \E d \in DataSets : TrainNewModel(d)
    \/ \E v \in Versions : DeployModel(v)
    \/ \E x \in ScaledFeatures, l \in BOOLEAN : Predict(x, l)
    \/ StartMonitoring
    \/ StopMonitoring
    \/ \E i \in 1..Len(thread) : MonitorLoop(i)
    \/ \E d \in DataSets : InitializeSystem(d)
    \/ \E x \in Features : PredictHousePrice(x)
    \/ GetSystemStatus
    \/ \E d \in DataSets : RetrainModel(d)
    \/ Shutdown

Spec == Init /\ [][Next]_vars

\* the system as driven through ProductionMLSystem alone
NextOrch ==
    \/ Tick
    \/ \E i \in 1..Len(thread) : MonitorLoop(i)
    \/ \E d \in MarginData : InitializeSystem(d)
    \/ \E x \in Features : PredictHousePrice(x)
    \/ GetSystemStatus
    \/ \E d \in MarginData : RetrainModel(d)
    \/ Shutdown

SpecOrch == Init /\ [][NextOrch]_vars

\* ------------------------------------------- statement by statement
\* The caller's thread and the monitor threads share the one connection
\* (check_same_thread=False).  deploy_model and the monitor loop are taken
\* one statement at a time; a statement runs to its end before another
\* thread's statement starts.

\* deploy_model up to the first UPDATE: the files are checked and loaded
DeployBegin(v) ==
    /\ fg = Idle
    /\ IF ~FilesExist(World, v)
       THEN UNCHANGED <<current_model, current_version, model_metadata, fg>>
       ELSE /\ current_model' = LoadModel(World, v).current_model
            /\ current_version' = LoadModel(World, v).current_version
            /\ model_metadata' = LoadModel(World, v).model_metadata
            /\ fg' = [pc |-> "update_active", arg |-> v]
    /\ UNCHANGED <<now, modelFiles, metaFiles, open, db, committed, scaler,
                   is_initialized, monitoring, thread, lastDeployed>>

\* lines 152-154; on a closed connection execute raises, deploy_model
\* returns False
DeployUpdateActive ==
    /\ fg.pc = "update_active"
    /\ IF ~open
       THEN fg' = Idle /\ UNCHANGED db
       ELSE /\ db' = UpdateActive(db, fg.arg)
            /\ fg' = [fg EXCEPT !.pc = "update_inactive"]
    /\ UNCHANGED <<now, modelFiles, metaFiles, open, committed, current_model,
                   current_version, model_metadata, scaler, is_initialized,
                   monitoring, thread, lastDeployed>>

\* lines 155-157
DeployUpdateInactive ==
    /\ fg.pc = "update_inactive"
    /\ IF ~open
       THEN fg' = Idle /\ UNCHANGED db
       ELSE /\ db' = UpdateInactive(db, fg.arg)
            /\ fg' = [fg EXCEPT !.pc = "commit"]
    /\ UNCHANGED <<now, modelFiles, metaFiles, open, committed, current_model,
                   current_version, model_metadata, scaler, is_initialized,
                   monitoring, thread, lastDeployed>>

\* line 158, and the return of True
DeployCommit ==
    /\ fg.pc = "commit"
    /\ IF ~open
       THEN UNCHANGED <<committed, lastDeployed>>
       ELSE /\ committed' = db
            /\ lastDeployed' = fg.arg
    /\ fg' = Idle
    /\ UNCHANGED <<now, modelFiles, metaFiles, open, db, current_model,
                   current_version, model_metadata, scaler, is_initialized,
                   monitoring, thread>>

\* n predict calls one after the other within a second; the first that
\* raises ends them
RECURSIVE predict_times(_, _, _, _)
predict_times(w, t, x, n) ==
    IF n = 0 THEN w
    ELSE LET r == predict(w, t, x, TRUE)
         IN  IF r.err # "none" THEN r.w
             ELSE predict_times(r.w, t, x, n - 1)

PredictTimes(x, n) ==
    /\ fg = Idle
    /\ Len(db.predictions) < MaxLog
    /\ SetWorld(predict_times(World, now, x, n))
    /\ UNCHANGED <<now, scaler, is_initialized, monitoring, thread, fg,
                   lastDeployed>>

SetThread(i, pc, avg) ==
    thread' = [thread EXCEPT ![i] = [pc |-> pc, avg_confidence |-> avg,
                                     lastrowid |-> 0]]

\* variant: the loop does not read the flag
MonitorTopUnconditional(i) ==
    /\ thread[i].pc = "top"
    /\ SetThread(i, "check", None)
    /\ UNCHANGED <<now, modelFiles, metaFiles, open, db, committed,
                   current_model, current_version, model_metadata, scaler,
                   is_initialized, monitoring, fg, lastDeployed>>

\* line 259: the flag is read; a loop that reads False is over
MonitorTop(i) ==
    /\ thread[i].pc = "top"
    /\ IF monitoring
       THEN SetThread(i, "check", None)
       ELSE thread' = RemoveAt(thread, i)
    /\ UNCHANGED <<now, modelFiles, metaFiles, open, db, committed,
                   current_model, current_version, model_metadata, scaler,
                   is_initialized, monitoring, fg, lastDeployed>>

\* lines 269-278: the query (it reads what the connection sees) and the two
\* tests; an exception takes the loop to its except branch
MonitorCheck(i) ==
    /\ thread[i].pc = "check"
    /\ IF ~open
       THEN SetThread(i, "backoff", None)
       ELSE LET performance == get_model_performance(db, now, HealthDays)
            IN  IF /\ performance.total_predictions > MinSamples
                   /\ MeanConfidenceBelow(performance.models,
                                          PerformanceThreshold)
                THEN SetThread(i, "insert",
                               Some(MeanConfidence(performance.models)))
                ELSE SetThread(i, "sleep", None)
    /\ UNCHANGED <<now, modelFiles, metaFiles, open, db, committed,
                   current_model, current_version, model_metadata, scaler,
                   is_initialized, monitoring, fg, lastDeployed>>

\* lines 284-292: the INSERT, with current_version as it is now; the cursor
\* of this call keeps the row it has inserted (cursor.lastrowid)
MonitorInsert(i) ==
    /\ thread[i].pc = "insert"
    /\ IF ~open
       THEN SetThread(i, "backoff", None) /\ UNCHANGED db
       ELSE /\ Len(db.model_performance) < MaxAlerts
            /\ db' = InsertAlert(db, now, current_version,
                                 thread[i].avg_confidence[1])
            /\ thread' = [thread EXCEPT ![i] =
                              [pc |-> "commit", avg_confidence |-> None,
                               lastrowid |-> Len(db.model_performance) + 1]]
    /\ UNCHANGED <<now, modelFiles, metaFiles, open, committed, current_model,
                   current_version, model_metadata, scaler, is_initialized,
                   monitoring, fg, lastDeployed>>

\* line 294: commit() commits whatever the connection has pending
MonitorCommit(i) ==
    /\ thread[i].pc = "commit"
    /\ IF ~open
       THEN SetThread(i, "backoff", None) /\ UNCHANGED committed
       ELSE committed' = db /\ SetThread(i, "sleep", None)
    /\ UNCHANGED <<now, modelFiles, metaFiles, open, db, current_model,
                   current_version, model_metadata, scaler, is_initialized,
                   monitoring, fg, lastDeployed>>

\* variant: the sleep after an exception never ends
MonitorWakeSleepOnly(i) ==
    /\ thread[i].pc = "sleep"
    /\ SetThread(i, "top", None)
    /\ UNCHANGED <<now, modelFiles, metaFiles, open, db, committed,
                   current_model, current_version, model_metadata, scaler,
                   is_initialized, monitoring, fg, lastDeployed>>

\* lines 261 and 264: either sleep ends and the loop is at its top again
MonitorWake(i) ==
    /\ thread[i].pc \in {"sleep", "backoff"}
    /\ SetThread(i, "top", None)
    /\ UNCHANGED <<now, modelFiles, metaFiles, open, db, committed,
                   current_model, current_version, model_metadata, scaler,
                   is_initialized, monitoring, fg, lastDeployed>>

\* one well-formed data set is enough for two versions to exist
OneDataSet == {d \in DataSets : d.kind = "ok" /\ d.level < 0}

NextConc ==
    \/ Tick
    \/ \E d \in OneDataSet : TrainNewModel(d)
    \/ \E v \in Versions : DeployBegin(v)
    \/ DeployUpdateActive
    \/ DeployUpdateInactive
    \/ DeployCommit
    \/ \E n \in {1, MinSamples + 1} : PredictTimes(0, n)
    \/ StartMonitoring
    \/ StopMonitoring
    \/ Shutdown
    \/ \E i \in 1..Len(thread) : MonitorTop(i)
    \/ \E i \in 1..Len(thread) : MonitorCheck(i)
    \/ \E i \in 1..Len(thread) : MonitorInsert(i)
    \/ \E i \in 1..Len(thread) : MonitorCommit(i)
    \/ \E i \in 1..Len(thread) : MonitorWake(i)

SpecConc == Init /\ [][NextConc]_vars

\* ------------------------------------------------ a later process
\* The model files live in the directory 'models' and the store in the file
\* 'ml_system.db': both outlive the process.  A new process constructs the
\* objects again: ModelManager.__init__ opens a connection on what was
\* committed (CREATE TABLE IF NOT EXISTS keeps the rows), nothing is loaded,
\* the scaler is unfitted and no monitor thread runs.  lastDeployed is the
\* history of the store and is kept.
Restart ==
    /\ fg = Idle
    /\ open' = TRUE
    /\ db' = committed
    /\ current_model' = None
    /\ current_version' = NoVersion
    /\ model_metadata' = None
    /\ scaler' = None
    /\ is_initialized' = FALSE
    /\ monitoring' = FALSE
    /\ thread' = <<>>
    /\ UNCHANGED <<now, modelFiles, metaFiles, committed, fg, lastDeployed>>

NextRestart ==
    \/ Tick
    \/ \E d \in DataSets : TrainNewModel(d)
    \/ \E v \in Versions : DeployModel(v)
    \/ \E x \in ScaledFeatures, l \in BOOLEAN : Predict(x, l)
    \/ Shutdown
    \/ Restart

SpecRestart == Init /\ [][NextRestart]_vars

\* --------------------------------------------- inputs outside the ranges
\* The only range checks in the repository are those of the web form
\* (ml_web_application.py, lines 152-158: size 500..5000, bedrooms 1..10,
\* age 0..100).  On the model's scale Features are inputs inside the ranges
\* and OutOfRange is an input below them, such as a negative size.
OutOfRange == {-1}

Inputs == Features \cup OutOfRange

NextRange ==
    \/ Tick
    \/ \E d \in MarginData : InitializeSystem(d)
    \/ \E x \in Inputs : PredictHousePrice(x)
    \/ \E d \in MarginData : RetrainModel(d)
    \/ Shutdown

SpecRange == Init /\ [][NextRange]_vars

\* ------------------------------------------ the loops under fair scheduling
\* the checks that may still insert an alert
PendingChecks(th) == {i \in 1..Len(th) : th[i].pc \in {"check", "insert"}}

\* The top of the loop.  A new check begins only while the alert table has
\* room for the alerts of every check that is under way, so that no INSERT
\* ever waits for room; a loop that reads the flag down always leaves.
LiveTop(i) ==
    /\ monitoring =>
           Len(db.model_performance) + Cardinality(PendingChecks(thread))
               < MaxAlerts
    /\ MonitorTop(i)

\* the next statement of loop i
LoopStep(i) ==
    /\ i \in 1..Len(thread)
    /\ \/ LiveTop(i)
       \/ MonitorCheck(i)
       \/ MonitorInsert(i)
       \/ MonitorCommit(i)
       \/ MonitorWake(i)

NextLive ==
    \/ Tick
    \/ \E d \in OneDataSet : TrainNewModel(d)
    \/ \E v \in Versions : DeployModel(v)
    \/ \E n \in {1, MinSamples + 1} : PredictTimes(0, n)
    \/ StartMonitoring
    \/ StopMonitoring
    \/ Shutdown
    \/ \E i \in 1..MaxThreads : LoopStep(i)

\* Every loop runs in a thread of its own (line 248): the scheduler lets a
\* runnable thread run, and time.sleep returns.  The callers' thread is under
\* no obligation to call anything.
SpecLive ==
    /\ Init
    /\ [][NextLive]_vars
    /\ \A i \in 1..MaxThreads : WF_vars(LoopStep(i))

\* ============================================================ properties
\* the versions a store marks 'active'
ActiveVersions(t) ==
    {v \in Versions : t.model_versions[v] # None
                      /\ t.model_versions[v][1].status = "active"}

StatusOf(t, v) == t.model_versions[v][1].status

R2Of(t, v) == t.model_versions[v][1].r2_score

\* C1: whenever no call is in progress, after any sequence of completed
\* train_new_model, deploy_model, retrain_model and initialize_system calls
\* (successful or failed), at most one record of model_versions has status
\* 'active', in the connection's view and in the committed store.
C1_AtMostOneActive ==
    fg = Idle => /\ Cardinality(ActiveVersions(db)) <= 1
                 /\ Cardinality(ActiveVersions(committed)) <= 1

\* two versions are recorded, one is active and a deploy has demoted the other
C1_Witness ==
    \E u, v \in Versions :
        /\ u # v
        /\ db.model_versions[u] # None /\ StatusOf(db, u) = "active"
        /\ db.model_versions[v] # None /\ StatusOf(db, v) = "inactive"
        /\ committed = db

C4_AllOrNothing ==
    [][\A v \in Versions :
          (DeployModel(v) /\ ~deploy_model(World, v).ret) =>
              /\ current_model' = current_model
              /\ current_version' = current_version
              /\ model_metadata' = model_metadata
              /\ db'.model_versions = db.model_versions]_vars

\* a deploy_model has returned False and yet a model is loaded
C4_Witness ==
    /\ lastDeployed = NoVersion
    /\ current_version # NoVersion
    /\ current_model # None

\* C5 (as stated): as long as no deploy_model has returned True, every predict
\* raises the "No model deployed" ValueError and appends no record.
C5_NoDeployNoPredict ==
    lastDeployed = NoVersion =>
        \A x \in ScaledFeatures, l \in BOOLEAN :
            LET r == predict(World, now, x, l)
            IN  r.err = "ValueError" /\ r.w.db.predictions = db.predictions

\* C6 (as stated): once a deploy_model has returned True, every predict on
\* well-formed input returns a result, in every state reached later.
C6_Original ==
    lastDeployed # NoVersion =>
        \A x \in ScaledFeatures, l \in BOOLEAN :
            predict(World, now, x, l).err = "none"

\* C6 (amended): once a deploy_model has returned True, every predict on
\* well-formed input returns {prediction, confidence, model_version,
\* timestamp} of the loaded model for as long as the connection is open (no
\* shutdown has been called); on a closed connection a predict that does not
\* log still returns it.
C6_PredictAfterDeploy ==
    lastDeployed # NoVersion =>
        \A x \in ScaledFeatures, l \in BOOLEAN :
            LET r == predict(World, now, x, l)
            IN  (open \/ ~l) =>
                    /\ r.err = "none"
                    /\ r.result = [prediction |-> ModelPredict(current_model[1], x),
                                   confidence |-> Confidence(current_model[1]),
                                   model_version |-> current_version,
                                   timestamp |-> now]

\* a prediction was served and logged after a deploy, a later deploy has
\* changed the active version, and the connection is still open
C6_Witness ==
    /\ open
    /\ Len(db.predictions) > 0
    /\ lastDeployed # NoVersion
    /\ db.predictions[1].model_version # lastDeployed

\* C7: a retrain_model that returns has deployed the version it trained
\* exactly when no version was active, or the new version's R2 is strictly
\* above the active version's R2 plus the margin; with new R2 equal to the
\* active R2 plus the margin, or below it, the new version is not deployed.
\* The active version is the one the store marks 'active', which is the
\* one loaded; its R2 is the r2_score of the metadata loaded for it.
C7_DeployPolicy ==
    [][\A d \in MarginData : RetrainModel(d) =>
          LET r == retrain_model(World, scaler, now, d)
          IN  r.err = "none" =>
                  /\ db'.model_versions[r.version] # None
                  /\ R2Of(db', r.version) = metaFiles'[r.version][1].r2_score
                  /\ ActiveVersions(db) = IF current_version = NoVersion
                                           THEN {} ELSE {current_version}
                  /\ (current_version' = r.version
                      /\ ActiveVersions(db') = {r.version})
                     <=> \/ ActiveVersions(db) = {}
                         \/ /\ ActiveVersions(db) # {}
                            /\ R2Of(db', r.version)
                                   > model_metadata[1].r2_score
                                     + ImprovementThreshold]_vars

\* a retrain has left its version undeployed with an R2 that is the active
\* version's plus the margin exactly
C7_Witness ==
    \E a, n \in Versions :
        /\ db.model_versions[a] # None /\ db.model_versions[n] # None
        /\ StatusOf(db, a) = "active" /\ StatusOf(db, n) = "trained"
        /\ R2Of(db, n) = model_metadata[1].r2_score + ImprovementThreshold
        /\ current_version = a

\* C8: when a retrain_model that returns has not deployed its version, the
\* version is new in the store with status 'trained' and retrain_model
\* returns its identifier; the version get_system_status reports, every
\* other stored record, the in-memory model and the loaded metadata are as
\* before the call.
C8_NoDeployFrame ==
    [][\A d \in MarginData : RetrainModel(d) =>
          LET r == retrain_model(World, scaler, now, d)
          IN  (r.err = "none" /\ ~r.deployed) =>
                  /\ db.model_versions[r.version] = None
                  /\ db'.model_versions[r.version]
                         = Some([r2_score |-> d.r2, status |-> "trained"])
                  /\ committed' = db'
                  /\ \A v \in Versions \ {r.version} :
                         db'.model_versions[v] = db.model_versions[v]
                  /\ ActiveVersions(db') = ActiveVersions(db)
                  /\ get_system_status(World', is_initialized', monitoring', now')
                         .current_model_version
                     = get_system_status(World, is_initialized, monitoring, now)
                         .current_model_version
                  /\ current_version' = current_version
                  /\ current_model' = current_model
                  /\ model_metadata' = model_metadata]_vars

\* a retrain has left a version with a lower R2 undeployed next to the
\* active one, which is still the one loaded
C8_Witness ==
    \E a, n \in Versions :
        /\ db.model_versions[a] # None /\ db.model_versions[n] # None
        /\ StatusOf(db, a) = "active" /\ StatusOf(db, n) = "trained"
        /\ R2Of(db, n) < R2Of(db, a)
        /\ current_version = a
        /\ current_model = modelFiles[a]

\* C9: for a predict_house_price that returns, if the model's raw prediction
\* is negative the returned prediction is the floor and the returned
\* confidence is exactly half the model's confidence; if it is not negative,
\* both are returned as the model gave them.
C9_Clamping ==
    [][\A x \in Features : PredictHousePrice(x) =>
          LET r == predict_house_price(World, scaler, is_initialized, now, x)
          IN  r.err = "none" =>
                  LET raw == ModelPredict(current_model[1], Transform(scaler, x))
                      conf == Confidence(current_model[1])
                  IN  /\ raw < 0 => /\ r.result.prediction = PriceFloor
                                    /\ 2 * r.result.confidence = conf
                      /\ raw >= 0 => /\ r.result.prediction = raw
                                     /\ r.result.confidence = conf]_vars

\* predict_house_price has served an input whose raw prediction is negative
C9_Witness ==
    /\ is_initialized
    /\ \E i \in 1..Len(db.predictions) : db.predictions[i].prediction < 0

\* C10 (as stated): on an initialized system every result predict_house_price
\* returns has prediction > 0 and 0 <= confidence <= 1.
C10_PositivePrice ==
    is_initialized =>
        \A x \in Features :
            LET r == predict_house_price(World, scaler, is_initialized, now, x)
            IN  r.err = "none" =>
                    /\ r.result.prediction > 0
                    /\ 0 <= r.result.confidence
                    /\ r.result.confidence <= ConfidenceOne

\* predict_house_price has served an input whose raw prediction is 0
C10_Witness ==
    /\ is_initialized
    /\ \E i \in 1..Len(db.predictions) : db.predictions[i].prediction = 0

\* C3 (as stated): in no interleaving of deploy_model's statements with the
\* monitor thread's statements on the shared connection does the committed
\* store, which is what any reader of the database file sees, hold two
\* versions marked 'active'.
C3_NeverTwoActiveCommitted ==
    Cardinality(ActiveVersions(committed)) <= 1

\* the monitor's commit has landed between deploy_model's two UPDATEs
C3_Witness ==
    /\ fg.pc = "update_inactive"
    /\ Cardinality(ActiveVersions(committed)) = 2
    /\ Len(committed.model_performance) > 0

\* C11: only initialize_system fits the scaler and sets is_initialized, so
\* before it has been called the scaler is unfitted and is_initialized is
\* False; as long as is_initialized is False every predict_house_price
\* raises, as long as the scaler is unfitted every retrain_model raises, and
\* each such call leaves the files, the store with its version records and
\* prediction log, and the in-memory model and version as they were.
C11_InitializeFirst ==
    [][/\ (scaler' # scaler \/ is_initialized' # is_initialized)
              => \E d \in MarginData : InitializeSystem(d)
       /\ ~is_initialized =>
              \A x \in Features :
                  LET r == predict_house_price(World, scaler, is_initialized,
                                               now, x)
                  IN  r.err # "none" /\ r.w = World
       /\ scaler = None =>
              \A d \in MarginData :
                  LET r == retrain_model(World, scaler, now, d)
                  IN  r.err # "none" /\ r.w = World /\ ~r.ret]_vars

\* no initialize_system has fitted the scaler, and a version trained and
\* deployed directly on the ModelManager is active and loaded
C11_Witness ==
    /\ scaler = None
    /\ ~is_initialized
    /\ open
    /\ lastDeployed # NoVersion
    /\ current_model # None
    /\ ActiveVersions(db) = {lastDeployed}

\* C12: when initialize_system returns (its train_new_model did not raise),
\* is_initialized is True and get_system_status reports it, exactly one
\* version has status 'active' in the store, it is the version just trained
\* from the data, it is the one loaded for serving, and the monitor is
\* running: its flag is set and a new loop has been started.
C12_AfterInitialize ==
    [][\A d \in MarginData :
          (InitializeSystem(d) /\ d.kind # "empty"
               /\ train_new_model(World, now, d).err = "none") =>
              LET v == train_new_model(World, now, d).version
              IN  /\ is_initialized'
                  /\ get_system_status(World', is_initialized', monitoring',
                                       now').initialized
                  /\ db.model_versions[v] = None
                  /\ ActiveVersions(db') = {v}
                  /\ ActiveVersions(committed') = {v}
                  /\ R2Of(db', v) = d.r2
                  /\ current_version' = v
                  /\ current_model' = Some(FitModel(d))
                  /\ current_model' = modelFiles'[v]
                  /\ monitoring'
                  /\ Len(thread') = Len(thread) + 1
                  /\ thread'[Len(thread')].pc = "top"]_vars

\* initialize_system has returned in this second, next to an older version
\* that it has demoted
C12_Witness ==
    /\ is_initialized
    /\ monitoring
    /\ Len(thread) > 0
    /\ current_version = now
    /\ ActiveVersions(db) = {now}
    /\ \E u \in Versions : u # now /\ db.model_versions[u] # None
                           /\ StatusOf(db, u) = "inactive"

IsPrefix(s, t) == Len(s) <= Len(t) /\ SubSeq(t, 1, Len(s)) = s

WindowDays == {HealthDays, StatusDays}

\* the clock at the query, and timestamps a second before, at and a second
\* after each window's cutoff
QueryTime == (StatusDays + 1) * SecondsPerDay

Stamps ==
    {QueryTime - days * SecondsPerDay + e : days \in WindowDays, e \in {-1, 0, 1}}

\* the state construction leaves
FreshWorld ==
    [ modelFiles |-> [v \in Versions |-> None],
      metaFiles |-> [v \in Versions |-> None],
      open |-> TRUE, db |-> EmptyTables, committed |-> EmptyTables,
      current_model |-> None, current_version |-> NoVersion,
      model_metadata |-> None ]

\* versions 0 and 1 have been trained, version 1 deployed, then version 0
ServedWorld ==
    LET d0 == CHOOSE d \in DataSets : d.kind = "ok" /\ d.level < 0
        d1 == CHOOSE d \in DataSets : d.kind = "ok" /\ d.level > 0
        w1 == train_new_model(FreshWorld, 0, d0).w
        w2 == train_new_model(w1, 1, d1).w
    IN  deploy_model(deploy_model(w2, 1).w, 0).w

\* what predict logs at clock ts with version v loaded, on scaled input 0
LoggedAt(ts, v) ==
    [timestamp |-> ts, model_version |-> v, input_features |-> 0,
     prediction |-> ModelPredict(ServedWorld.modelFiles[v][1], 0),
     confidence |-> Confidence(ServedWorld.modelFiles[v][1])]

\* logs of up to MaxRecords predictions, in the order of their timestamps
PerfLogs ==
    LET raw == UNION {[1..n -> Stamps \X {0, 1}] : n \in 0..MaxRecords}
        sorted == {s \in raw : \A i \in 1..(Len(s) - 1) : s[i][1] <= s[i + 1][1]}
    IN  {[i \in 1..Len(s) |-> LoggedAt(s[i][1], s[i][2])] : s \in sorted}

InitPerf ==
    \E log \in PerfLogs :
        /\ now = QueryTime
        /\ modelFiles = ServedWorld.modelFiles
        /\ metaFiles = ServedWorld.metaFiles
        /\ open = TRUE
        /\ db = [ServedWorld.db EXCEPT !.predictions = log]
        /\ committed = [ServedWorld.db EXCEPT !.predictions = log]
        /\ current_model = ServedWorld.current_model
        /\ current_version = ServedWorld.current_version
        /\ model_metadata = ServedWorld.model_metadata
        /\ scaler = None
        /\ is_initialized = FALSE
        /\ monitoring = FALSE
        /\ thread = <<>>
        /\ fg = Idle
        /\ lastDeployed = ServedWorld.current_version

NextPerf == GetSystemStatus

SpecPerf == InitPerf /\ [][NextPerf]_vars

RECURSIVE SumConfidence(_, _)
SumConfidence(log, I) ==
    IF I = {} THEN 0
    ELSE LET i == CHOOSE j \in I : TRUE
         IN  log[i].confidence + SumConfidence(log, I \ {i})

RECURSIVE SumCounts(_, _)
SumCounts(models, V) ==
    IF V = {} THEN 0
    ELSE LET v == CHOOSE u \in V : TRUE
         IN  models[v].prediction_count + SumCounts(models, V \ {v})

\* C14: for each window the program asks for, get_model_performance
\* returns one row per model_version that has a record with timestamp
\* strictly later than now minus the window, with the count of exactly those
\* records and the sum of their confidences (the mean is the sum over the
\* count); a record timestamped exactly at now minus the window is not
\* counted; total_predictions is the number of records in the window and
\* the sum of the rows' counts.
C14_Window ==
    \A days \in WindowDays :
        LET p == get_model_performance(db, now, days)
            log == db.predictions
            inWindow == {i \in 1..Len(log) :
                            log[i].timestamp > now - days * SecondsPerDay}
            of(v) == {i \in inWindow : log[i].model_version = v}
        IN  /\ p.period_days = days
            /\ DOMAIN p.models = {log[i].model_version : i \in inWindow}
            /\ \A v \in DOMAIN p.models :
                   /\ p.models[v].prediction_count = Cardinality(of(v))
                   /\ p.models[v].prediction_count > 0
                   /\ p.models[v].confidence_sum = SumConfidence(log, of(v))
            /\ p.total_predictions = Cardinality(inWindow)
            /\ p.total_predictions = SumCounts(p.models, DOMAIN p.models)

\* the log holds a record exactly one day old, one exactly seven days old,
\* and a later one; the one-day query counts one of the three and the
\* seven-day query two
C14_Witness ==
    /\ Len(db.predictions) = 3
    /\ db.predictions[1].timestamp = now - StatusDays * SecondsPerDay
    /\ db.predictions[2].timestamp = now - HealthDays * SecondsPerDay
    /\ db.predictions[3].timestamp > now - HealthDays * SecondsPerDay
    /\ get_model_performance(db, now, HealthDays).total_predictions = 1
    /\ get_model_performance(db, now, StatusDays).total_predictions = 2

\* C15 (as stated): a start_monitoring called while the monitor is running
\* (the flag is set and a loop is alive) starts no second loop and leaves
\* the monitor as it was.
C15_StartIdempotent ==
    [][(StartMonitoring /\ monitoring /\ Len(thread) > 0) =>
           /\ thread' = thread
           /\ monitoring' = monitoring]_vars

\* two monitor loops are alive while the flag is set
C15_Witness ==
    /\ monitoring
    /\ Len(thread) = 2
    /\ \A i \in 1..Len(thread) : thread[i].pc = "top"

\* the loops that are inside a health check: past the test of the flag and
\* not yet asleep
InFlight(th) == {i \in 1..Len(th) : th[i].pc \in {"check", "insert", "commit"}}

\* C16: while the flag is down (stop_monitoring has returned and no
\* start_monitoring has followed), no loop begins a health check: a loop
\* that reaches the top of its while leaves the loop, and the only checks
\* that still run are those whose loop had passed the test before.
C16_NoNewCheckAfterStop ==
    [][~monitoring =>
           /\ Cardinality(InFlight(thread')) <= Cardinality(InFlight(thread))
           /\ \A i \in 1..Len(thread) :
                  MonitorTop(i) => /\ Len(thread') = Len(thread) - 1
                                   /\ InFlight(thread') = InFlight(RemoveAt(thread, i))]_vars

\* the flag is down, a check that was in flight is at its INSERT, and
\* another loop has already left
C16_Witness ==
    /\ ~monitoring
    /\ open
    /\ Len(thread) = 1
    /\ thread[1].pc = "insert"

\* a statement of the health check of loop i raises: the connection is closed
FailingCheck(i) ==
    /\ ~open
    /\ MonitorCheck(i) \/ MonitorInsert(i) \/ MonitorCommit(i)

\* C17 (as stated): a health check that raises does not end its loop and
\* touches nothing of the caller's thread; the loop backs off, returns to
\* the top of its while and, the flag being up, begins a further check; and
\* the alert row of a check that raises is not in the committed store.
C17_FailingCheckResilient ==
    [][\A i \in 1..Len(thread) :
          /\ FailingCheck(i) =>
                 /\ Len(thread') = Len(thread)
                 /\ thread'[i].pc = "backoff"
                 /\ fg' = fg /\ monitoring' = monitoring
                 /\ World' = World
                 /\ \/ thread[i].lastrowid = 0
                    \/ Len(committed'.model_performance) < thread[i].lastrowid
          /\ (thread[i].pc = "backoff" /\ MonitorWake(i)) =>
                 thread'[i].pc = "top"
          /\ (thread[i].pc = "top" /\ monitoring /\ MonitorTop(i)) =>
                 thread'[i].pc = "check"]_vars

\* the connection is closed, a check is at its commit, which will raise, and
\* the row it inserted is already in the committed store
C17_Witness ==
    \E i \in 1..Len(thread) :
        /\ ~open
        /\ thread[i].pc = "commit"
        /\ thread[i].lastrowid > 0
        /\ Len(committed.model_performance) >= thread[i].lastrowid

\* C18: shutdown() lowers the monitor's flag and closes the connection; from
\* then on the connection stays closed and no step, of a caller or of a
\* health check that was in flight, changes the committed store or adds a
\* pending statement: no alert, no prediction record, no status change.
C18_NothingAfterShutdown ==
    [][/\ Shutdown => ~monitoring' /\ ~open'
       /\ ~open => /\ ~open'
                   /\ committed' = committed
                   /\ db' = db]_vars

\* shutdown was called while a check was between its INSERT and its commit:
\* the row was rolled back, and the check is still to run its commit
C18_Witness ==
    \E i \in 1..Len(thread) :
        /\ ~open
        /\ ~monitoring
        /\ thread[i].pc = "commit"
        /\ Len(committed.model_performance) < thread[i].lastrowid
        /\ Len(committed.predictions) > MinSamples

\* C19 (as stated): no train_new_model call, made by initialize_system or by
\* retrain_model on well-formed data, finds its identifier already in the
\* store: the duplicate-version error (sqlite3.IntegrityError on the primary
\* key) is raised in no reachable execution.
C19_NoVersionCollision ==
    [][\A d \in MarginData :
          (/\ d.kind = "ok"
           /\ \/ InitializeSystem(d)
              \/ scaler # None /\ RetrainModel(d))
          => train_new_model(World, now, d).err # "IntegrityError"]_vars

\* the system was initialized within the current second: a retrain now
\* derives the identifier the store already holds
C19_Witness ==
    /\ open
    /\ is_initialized
    /\ scaler # None
    /\ current_version = now
    /\ db.model_versions[now] # None
    /\ \A v \in Versions \ {now} : db.model_versions[v] = None

\* C20 (as stated): a deploy_model(v) on an open connection whose store has
\* no record of v returns False and leaves the loaded version, the loaded
\* model and every stored status as they were, whether or not the two files
\* of v exist.
C20_UnknownVersionRejected ==
    [][\A v \in Versions :
          (DeployModel(v) /\ open /\ db.model_versions[v] = None) =>
              /\ ~deploy_model(World, v).ret
              /\ current_version' = current_version
              /\ current_model' = current_model
              /\ db'.model_versions = db.model_versions
              /\ committed'.model_versions = committed.model_versions]_vars

\* a version the store has no record of is the one loaded, its deploy has
\* returned True, and the version that was active is 'inactive'
C20_Witness ==
    \E u, v \in Versions :
        /\ open
        /\ lastDeployed = v /\ current_version = v
        /\ db.model_versions[v] = None
        /\ FilesExist(World, v)
        /\ db.model_versions[u] # None /\ StatusOf(db, u) = "inactive"
        /\ ActiveVersions(committed) = {}

\* C21: a train_new_model call on empty arrays, or on features and labels
\* of different lengths, raises ValueError and leaves the store, both file
\* sets, the loaded model and the loaded version as they were: no record,
\* no model file, no metadata file, the same active version.
C21_InvalidDataRejected ==
    [][\A d \in DataSets :
          (d.kind # "ok" /\ TrainNewModel(d)) =>
              /\ train_new_model(World, now, d).err = "ValueError"
              /\ modelFiles' = modelFiles /\ metaFiles' = metaFiles
              /\ db' = db /\ committed' = committed
              /\ current_version' = current_version
              /\ current_model' = current_model
              /\ ActiveVersions(db') = ActiveVersions(db)]_vars

\* a version is active and the identifier a training would take now has
\* neither a record nor files: a rejected training leaves this state as it is
C21_Witness ==
    /\ open
    /\ now = 1
    /\ ActiveVersions(db) = {0} /\ current_version = 0
    /\ modelFiles[1] = None /\ metaFiles[1] = None
    /\ db.model_versions[1] = None
    /\ Len(db.predictions) = 0

\* C22 (as stated): a predict_house_price call with a value outside the
\* ranges is rejected: it raises, and no prediction record is added.
C22_OutOfRangeRejected ==
    [][\A x \in OutOfRange :
          PredictHousePrice(x) =>
              /\ predict_house_price(World, scaler, is_initialized, now, x).err
                     # "none"
              /\ db'.predictions = db.predictions
              /\ committed'.predictions = committed.predictions]_vars

\* the committed log holds a record whose features are below what any
\* fitted scaler makes of an input inside the ranges
C22_Witness ==
    /\ is_initialized
    /\ Len(committed.predictions) > 0
    /\ \A d \in MarginData, x \in Features :
           committed.predictions[1].input_features
               < Transform(Some([center |-> d.center]), x)

\* ------------------------------- health checks on a log around the limits
\* the confidences of the logged predictions: what the fitted forest yields,
\* and one sixtieth below, at and above the threshold
ConfLevels ==
    {MeanImportance, PerformanceThreshold - 1, PerformanceThreshold,
     PerformanceThreshold + 1}

\* the number of predictions of the version that served most: none, and one
\* below, at and above the minimum sample size
RunLengths == {0, MinSamples - 1, MinSamples, MinSamples + 1}

\* n predictions served by version v with confidence c at clock ts
Run(n, ts, v, c) ==
    [i \in 1..n |-> [timestamp |-> ts, model_version |-> v,
                     input_features |-> 0,
                     prediction |-> ModelPredict(ServedWorld.modelFiles[v][1], 0),
                     confidence |-> c]]

\* logs in the order of their timestamps: at most one prediction made
\* exactly 24 hours before the check, then a run of version 1, then at most
\* one prediction of version 0, both inside the 24 hours
HealthLogs ==
    {Run(old, QueryTime - HealthDays * SecondsPerDay, 1, c1)
         \o Run(n1, QueryTime - 1, 1, c1) \o Run(n0, QueryTime, 0, c0) :
       old \in {0, 1}, n1 \in RunLengths, n0 \in {0, 1},
       c0 \in ConfLevels, c1 \in ConfLevels}

InitHealth ==
    \E log \in HealthLogs :
        /\ now = QueryTime
        /\ modelFiles = ServedWorld.modelFiles
        /\ metaFiles = ServedWorld.metaFiles
        /\ open = TRUE
        /\ db = [ServedWorld.db EXCEPT !.predictions = log]
        /\ committed = [ServedWorld.db EXCEPT !.predictions = log]
        /\ current_model = ServedWorld.current_model
        /\ current_version = ServedWorld.current_version
        /\ model_metadata = ServedWorld.model_metadata
        /\ scaler = None
        /\ is_initialized = FALSE
        /\ monitoring = TRUE
        /\ thread = SpawnThread(<<>>)
        /\ fg = Idle
        /\ lastDeployed = ServedWorld.current_version

\* one turn of the loop, as long as the alert table has room
HealthCheck(i) ==
    /\ Len(db.model_performance) < MaxAlerts
    /\ MonitorLoop(i)

NextHealth ==
    \/ \E i \in 1..Len(thread) : HealthCheck(i)
    \/ StopMonitoring

SpecHealth == InitHealth /\ [][NextHealth]_vars

\* the records of the trailing 24 hours, and those of them of version v
InDay == {i \in 1..Len(db.predictions) :
             db.predictions[i].timestamp > now - HealthDays * SecondsPerDay}

InDayOf(v) == {i \in InDay : db.predictions[i].model_version = v}

DayVersions == {v \in Versions : InDayOf(v) # {}}

RECURSIVE ProductOfCounts(_)
ProductOfCounts(V) ==
    IF V = {} THEN 1
    ELSE LET v == CHOOSE u \in V : TRUE
         IN  Cardinality(InDayOf(v)) * ProductOfCounts(V \ {v})

\* the sum over the versions of their mean confidence, times the product of
\* all the counts
RECURSIVE SumOfMeans(_)
SumOfMeans(V) ==
    IF V = {} THEN 0
    ELSE LET v == CHOOSE u \in V : TRUE
         IN  SumConfidence(db.predictions, InDayOf(v))
                 * ProductOfCounts(DayVersions \ {v})
             + SumOfMeans(V \ {v})

\* more than 50 predictions in the 24 hours, and the mean over the versions
\* of their mean confidence strictly below 0.7
AlertDue ==
    /\ Cardinality(InDay) > MinSamples
    /\ SumOfMeans(DayVersions)
           < PerformanceThreshold * Cardinality(DayVersions)
                 * ProductOfCounts(DayVersions)

C24_RecordNamesStoredVersion ==
    [][Len(db'.predictions) > Len(db.predictions) =>
           LET rec == db'.predictions[Len(db'.predictions)]
           IN  /\ rec.model_version \in Versions
               /\ db.model_versions[rec.model_version] # None]_vars

\* the committed log holds a prediction of a version that model_versions
\* has no record of
C24_Witness ==
    /\ open
    /\ Len(committed.predictions) > 0
    /\ committed.predictions[1].model_version \in Versions
    /\ committed.model_versions[committed.predictions[1].model_version] = None

Recorded(t, v) == t.model_versions[v] # None

\* C25 (as stated): in every step, a record that appears has status
\* 'trained' (or 'active', when the call that trained it has also deployed
\* it); a record is never removed; a record becomes 'active' only by the
\* deploy of its version; a record becomes 'inactive' only if it was
\* 'active' and another version is deployed; and deploy_model(v) changes the
\* record of no version other than v and the one that was active.
C25_Lifecycle ==
    [][\A v \in Versions :
          /\ (~Recorded(db, v) /\ Recorded(db', v)) =>
                 \/ StatusOf(db', v) = "trained"
                 \/ StatusOf(db', v) = "active" /\ lastDeployed' = v
          /\ Recorded(db, v) => Recorded(db', v)
          /\ (/\ Recorded(db', v) /\ StatusOf(db', v) = "active"
              /\ Recorded(db, v) => StatusOf(db, v) # "active")
                 => lastDeployed' = v /\ current_version' = v
          /\ (/\ Recorded(db, v) /\ StatusOf(db, v) # "inactive"
              /\ StatusOf(db', v) = "inactive")
                 => /\ StatusOf(db, v) = "active"
                    /\ ActiveVersions(db') # {}
                    /\ v \notin ActiveVersions(db')
          /\ DeployModel(v) =>
                 \A u \in Versions \ ({v} \cup ActiveVersions(db)) :
                     db'.model_versions[u] = db.model_versions[u]]_vars

\* two versions have been trained and neither deployed: the deploy of one
\* is the first change of status of the other
C25_Witness ==
    /\ open
    /\ \A v \in Versions : /\ Recorded(db, v) /\ StatusOf(db, v) = "trained"
                           /\ FilesExist(World, v)
    /\ lastDeployed = NoVersion /\ current_version = NoVersion
    /\ committed = db

\* C26 (as stated): whenever no call is in progress and the ModelManager
\* holds a version identifier, the store (as the connection sees it and as
\* committed) marks that version 'active', the model in memory and the
\* loaded metadata are the contents of the two files of that identifier, and
\* get_system_status, on an open connection, returns that identifier.
C26_MemoryAgreesWithStore ==
    (fg = Idle /\ current_version # NoVersion) =>
        /\ ActiveVersions(db) = {current_version}
        /\ ActiveVersions(committed) = {current_version}
        /\ current_model = modelFiles[current_version]
        /\ model_metadata = metaFiles[current_version]
        /\ open =>
               LET s == get_system_status(World, is_initialized, monitoring, now)
               IN  s.err = "none" /\ s.current_model_version = current_version

\* the connection is open and the system initialized, the loaded version is
\* the active one, and the model file of its identifier holds another model
\* than the one in memory
C26_Witness ==
    /\ open
    /\ is_initialized
    /\ fg = Idle
    /\ current_version # NoVersion
    /\ ActiveVersions(committed) = {current_version}
    /\ current_model # None
    /\ modelFiles[current_version] # None
    /\ current_model # modelFiles[current_version]

\* C27 (as stated): the record a predict_house_price call adds to the log
\* carries the prediction and the confidence the call returns.
C27_LoggedAsReturned ==
    [][\A x \in Features :
          PredictHousePrice(x) =>
              LET r == predict_house_price(World, scaler, is_initialized, now, x)
                  rec == db'.predictions[Len(db'.predictions)]
              IN  r.err = "none" =>
                      /\ Len(db'.predictions) = Len(db.predictions) + 1
                      /\ rec.prediction = r.result.prediction
                      /\ rec.confidence = r.result.confidence]_vars

\* the committed log holds a negative prediction with the confidence of the
\* model unhalved; the call that logged it returned the floor and half of it
C27_Witness ==
    /\ is_initialized
    /\ Len(committed.predictions) > 0
    /\ committed.predictions[1].prediction < 0
    /\ committed.predictions[1].prediction # PriceFloor
    /\ committed.predictions[1].confidence = MeanImportance

\* C28 (as stated): a start_monitoring called while the monitor is stopped
\* leaves exactly one loop alive, whatever start and stop calls came before.
C28_OneLoopAfterRestart ==
    [][(StartMonitoring /\ ~monitoring) => Len(thread') = 1]_vars

\* the flag is up and two loops are alive: the older one asleep between two
\* checks, the newer one at the top of its while
C28_Witness ==
    /\ monitoring
    /\ Len(thread) = 2
    /\ thread[1].pc = "sleep"
    /\ thread[2].pc = "top"

\* C29: from any state in which the flag is down (after stop_monitoring or
\* shutdown), unless start_monitoring raises it again, every loop has
\* eventually left, whether the check it was in completes or raises.
C29_LoopsExit ==
    ~monitoring ~> (monitoring \/ thread = <<>>)

\* the flag is down and the connection closed with two loops still alive:
\* one asleep after a check that completed, one backing off after a check
\* that raised
C29_Witness ==
    /\ ~monitoring
    /\ ~open
    /\ Len(thread) = 2
    /\ thread[1].pc = "sleep"
    /\ thread[2].pc = "backoff"

\* C30 (as stated): a train_new_model call that raises leaves, for every
\* version the store has a record of, the model file, the metadata file and
\* the record as they were, and the r2_score of the metadata file equal to
\* the r2_score of the record.
C30_FailedTrainingKeepsVersions ==
    [][\A d \in DataSets :
          (TrainNewModel(d) /\ train_new_model(World, now, d).err # "none") =>
              \A v \in Versions :
                  Recorded(committed, v) =>
                      /\ modelFiles'[v] = modelFiles[v]
                      /\ metaFiles'[v] = metaFiles[v]
                      /\ committed'.model_versions[v] = committed.model_versions[v]
                      /\ metaFiles'[v] # None
                      /\ metaFiles'[v][1].r2_score = R2Of(committed', v)]_vars

\* a recorded version whose metadata file states another r2_score than its
\* record, and whose model file is not the model the record was made for
C30_Witness ==
    \E v \in Versions :
        /\ open
        /\ Recorded(committed, v)
        /\ FilesExist(World, v)
        /\ metaFiles[v][1].r2_score # R2Of(committed, v)
        /\ current_version = v /\ current_model # modelFiles[v]

====
